---- MODULE Spec2Model ----
(***************************************************************************)
(* QSFS seal / unseal pipeline (qsfs-core lib.rs, streaming.rs, pae.rs,    *)
(* canonical.rs, derivation.rs, signer.rs) as a state machine.             *)
(*                                                                         *)
(* Cryptographic primitives are modelled symbolically: a ciphertext,       *)
(* signature or derived key is a record of the inputs it was made from,    *)
(* plus a flag saying whether any of its bits were altered afterwards.     *)
(* An optional value (Rust Option) is a sequence of length 0 or 1.         *)
(***************************************************************************)
EXTENDS Integers, Sequences, FiniteSets, TLC

None == <<>>
Some(x) == <<x>>

\* ---------------------------------------------------------------- bounds
MaxInputLen == 2
MaxRecipients == 2

\* ------------------------------------------------------- program constants
MAX_CHUNK_SIZE == 4 * 1024 * 1024
MAX_HEADER_LEN == 1024 * 1024
TAG_LEN == 16
FRAME_HDR_LEN == 8
WRAPPED_DEK_LEN == 48
DEK_LEN == 32
MLKEM1024_CT_LEN == 1568

\* Fixed-width counters. The model's plain integers stay far below 2^31, so the
\* chunk counters, which the code bounds at 2^32, are kept as two 16-bit limbs:
\* the value of [hi |-> h, lo |-> l] is h * 2^16 + l.
LIMB == 65536
Wide(n) == [hi |-> n \div LIMB, lo |-> n % LIMB]
WideInc(v) == IF v.lo + 1 < LIMB THEN [v EXCEPT !.lo = @ + 1] ELSE [hi |-> v.hi + 1, lo |-> 0]
WideGe(a, b) == a.hi > b.hi \/ (a.hi = b.hi /\ a.lo >= b.lo)
\* u32::checked_add(1): None on overflow.
CheckedAdd1(v) == IF WideInc(v).hi >= LIMB THEN None ELSE Some(WideInc(v))
\* 1 << 32
MAX_CHUNKS == [hi |-> LIMB, lo |-> 0]
\* `as u32`: the low 32 bits.
AsU32(v) == (((v \div LIMB) % LIMB) * LIMB) + (v % LIMB)

\* ------------------------------------------------------------ value sets

Identities == {"alice", "bob"}
Signers == {"s1", "s2"}
Suites == {"Aes256Gcm", "Aes256GcmSiv"}
ChunkSizes == {0, 1, MAX_CHUNK_SIZE, MAX_CHUNK_SIZE + 1}
MAGIC == "QSFS2"

Min(a, b) == IF a <= b THEN a ELSE b

RECURSIVE SeqsUpTo(_, _)
SeqsUpTo(S, n) ==
  IF n = 0 THEN {<<>>}
  ELSE LET shorter == SeqsUpTo(S, n - 1)
       IN shorter \cup {Append(s, x) : s \in {t \in shorter : Len(t) = n - 1}, x \in S}

\* The input files: one of each length, every byte different from its neighbours.
InputOfLen(n) == [i \in 1..n |-> i % 256]
Inputs == {InputOfLen(n) : n \in 0..MaxInputLen}
RecipientLists == SeqsUpTo(Identities, MaxRecipients)

\* ------------------------------------------------------------- suite.rs
SuiteCurrent(siv) == IF siv THEN "Aes256GcmSiv" ELSE "Aes256Gcm"

as_str(suite) == IF suite = "Aes256Gcm" THEN "aes256-gcm" ELSE "aes256-gcm-siv"

StrLen(s) ==
  CASE s = "aes256-gcm" -> 10
    [] s = "aes256-gcm-siv" -> 14
    [] s = "qsfs/v2" -> 7
    [] OTHER -> 0

\* --------------------------------------------------------------- pq.rs
\* ML-KEM-1024: encapsulation to the key of identity `pk`; `n` stands for the
\* encapsulation's randomness.
encapsulate(pk, n) ==
  [ss |-> <<"ss", pk, n>>, ct |-> [to |-> pk, n |-> n, len |-> MLKEM1024_CT_LEN]]

\* Decapsulation never fails: under the wrong key it returns the implicit
\* rejection secret, which no encapsulation produced.
decapsulate(ct, sk) ==
  IF ct.to = sk THEN <<"ss", ct.to, ct.n>> ELSE <<"rej", sk, ct.n>>

\* Ciphertext::from_bytes accepts exactly MLKEM1024_CT_LEN bytes.
CiphertextFromBytesOk(ct) == ct.len = MLKEM1024_CT_LEN

\* X25519: the shared secret of two key pairs, named by their owners.
diffie_hellman(sk, pk) == {sk, pk}

\* ------------------------------------------------------- derivation.rs
hkdf_expand_keys(cek, confirm) ==
  [aes_k1 |-> <<"qsfs/stream/k1", confirm, cek>>,
   chacha_k2 |-> <<"qsfs/stream/k2", confirm, cek>>]

derive_file_nonce_seed(cek) == <<"qsfs/nonce-prefix", cek>>

derive_kek(mlkem_ss, x25519_ss, kdf_salt_opt) ==
  [ss |-> mlkem_ss,
   xss |-> x25519_ss,
   salt |-> IF kdf_salt_opt = None THEN "qsfs/kdf/v2" ELSE kdf_salt_opt[1]]

\* Aes256Gcm encrypt of the 32-byte DEK: the ciphertext and the 16-byte tag.
wrap_dek(kek, nonce, dek) ==
  [kek |-> kek, nonce |-> nonce, dek |-> dek, len |-> DEK_LEN + TAG_LEN, flip |-> FALSE]

\* An unwrap that never looks at the nonce, standing in place of unwrap_dek.
unwrap_dek_AnyNonce(kek, nonce, wrapped) ==
  IF wrapped.len # WRAPPED_DEK_LEN THEN None
  ELSE IF wrapped.kek = kek /\ ~wrapped.flip THEN Some(wrapped.dek) ELSE None

\* Ok is Some(dek), Err is None.
unwrap_dek(kek, nonce, wrapped) ==
  IF wrapped.len # WRAPPED_DEK_LEN THEN None
  ELSE IF wrapped.kek = kek /\ wrapped.nonce = nonce /\ ~wrapped.flip
       THEN Some(wrapped.dek)
       ELSE None

\* ----------------------------------------------------------- signer.rs
sign(signer, data) == [by |-> signer, msg |-> data, flip |-> FALSE]

\* Signer id: hex of SHA-256 of the public key.
id_hex(signer) == <<"sha256", signer>>

\* A verification that does not look at every byte of the signature.
verify_signature_Lax(data, signature, public_key) ==
  signature.by = public_key /\ signature.msg = data

verify_signature(data, signature, public_key) ==
  signature.by = public_key /\ signature.msg = data /\ ~signature.flip

\* A trust store that vouches for every signer id.
is_trusted_Any(trust_store, signer_id) == TRUE

is_trusted(trust_store, signer_id) == signer_id \in trust_store

\* -------------------------------------------------------- streaming.rs
\* u32::to_be_bytes of a counter kept in limbs
ToBeBytes(v) == <<v.hi \div 256, v.hi % 256, v.lo \div 256, v.lo % 256>>

\* A nonce that keeps only the low byte of the counter, standing in place of
\* nonce_96.
nonce_96_LowByte(file_id, chunk_no) == <<file_id, 0, 0, 0, chunk_no.lo % 256>>

\* n[..8] is the file_id, n[8..] the counter's four big-endian bytes
nonce_96(file_id, chunk_no) == <<file_id>> \o ToBeBytes(chunk_no)

\* The build this model describes: the default feature "gcm-siv".
GcmSivFeature == TRUE

\* The algorithm behind the type alias Aes, fixed when the crate is compiled.
Aes == IF GcmSivFeature THEN "Aes256GcmSiv" ELSE "Aes256Gcm"

\* The chunk AEAD (Aes::encrypt / Aes::decrypt).
AeadEncrypt(key, nonce, aad, pt) ==
  [alg |-> Aes, key |-> key, nonce |-> nonce, aad |-> aad, pt |-> pt, flip |-> FALSE]

AeadDecrypt(key, nonce, aad, ct) ==
  IF ct.alg = Aes /\ ct.key = key /\ ct.nonce = nonce /\ ct.aad = aad /\ ~ct.flip
  THEN Some(ct.pt)
  ELSE None

CtLen(ct) == Len(ct.pt) + TAG_LEN

\* ---------------------------------------------------------------- pae.rs
RECURSIVE BeBytes(_, _)
BeBytes(v, n) == IF n = 0 THEN <<>> ELSE Append(BeBytes(v \div 256, n - 1), v % 256)

\* An item without its length prefix, standing in place of PaeItem.
PaeItem_NoLength(len, bytes) == <<<<>>, bytes>>

PaeItem(len, bytes) == <<BeBytes(len, 8), bytes>>

pae_v2_no_salt(suite, chunk_size, file_id) ==
  << <<"QSFS-PAE", 1>>,
     PaeItem(StrLen("qsfs/v2"), "qsfs/v2"),
     PaeItem(StrLen(as_str(suite)), as_str(suite)),
     PaeItem(4, BeBytes(chunk_size, 4)),
     PaeItem(8, file_id) >>

pae_v2_with_salt(suite, chunk_size, file_id, kdf_salt) ==
  << <<"QSFS-PAE", 2>>,
     PaeItem(StrLen("qsfs/v2"), "qsfs/v2"),
     PaeItem(StrLen(as_str(suite)), as_str(suite)),
     PaeItem(4, BeBytes(chunk_size, 4)),
     PaeItem(8, file_id),
     PaeItem(32, kdf_salt) >>

pae_v2_compat(h) ==
  IF h.kdf_salt # None
  THEN pae_v2_with_salt(h.suite, h.chunk_size, h.file_id, h.kdf_salt[1])
  ELSE pae_v2_no_salt(h.suite, h.chunk_size, h.file_id)

aead_aad(h) == pae_v2_compat(h)

\* str::as_bytes of the strings the PAE is built from.
AsBytes(str) ==
  CASE str = "QSFS-PAE" -> <<81, 83, 70, 83, 45, 80, 65, 69>>
    [] str = "qsfs/v2" -> <<113, 115, 102, 115, 47, 118, 50>>
    [] str = "aes256-gcm" -> <<97, 101, 115, 50, 53, 54, 45, 103, 99, 109>>
    [] str = "aes256-gcm-siv" ->
         <<97, 101, 115, 50, 53, 54, 45, 103, 99, 109, 45, 115, 105, 118>>

\* The Vec<u8> the extend_from_slice calls of pae.rs 12-16 and 25-29 build from
\* the prefix and the items: the first two items are ASCII strings, the others
\* byte arrays.
PaeBytes(aad) ==
  AsBytes(aad[1][1]) \o <<aad[1][2]>>
  \o aad[2][1] \o AsBytes(aad[2][2])
  \o aad[3][1] \o AsBytes(aad[3][2])
  \o aad[4][1] \o aad[4][2]
  \o aad[5][1] \o aad[5][2]
  \o (IF Len(aad) > 5 THEN aad[6][1] \o aad[6][2] ELSE <<>>)

\* ----------------------------------------------------------- canonical.rs
\* Byte order of two ML-KEM ciphertexts (Vec<u8>::cmp): -1, 0 or 1.
CtCmp(a, b) ==
  LET ka == <<IF a.to = "alice" THEN 0 ELSE 1, a.n, a.len>>
      kb == <<IF b.to = "alice" THEN 0 ELSE 1, b.n, b.len>>
  IN IF ka[1] # kb[1] THEN (IF ka[1] < kb[1] THEN -1 ELSE 1)
     ELSE IF ka[2] # kb[2] THEN (IF ka[2] < kb[2] THEN -1 ELSE 1)
     ELSE IF ka[3] # kb[3] THEN (IF ka[3] < kb[3] THEN -1 ELSE 1)
     ELSE 0

\* Insert r into the sorted sequence s after every element that is not greater
\* (slice::sort_by is a stable sort).
RECURSIVE InsertStable(_, _)
InsertStable(s, r) ==
  IF s = <<>> THEN <<r>>
  ELSE IF CtCmp(r.mlkem_ct, s[Len(s)].mlkem_ct) >= 0 THEN Append(s, r)
       ELSE Append(InsertStable(SubSeq(s, 1, Len(s) - 1), r), s[Len(s)])

RECURSIVE SortRecipients(_)
SortRecipients(rs) ==
  IF rs = <<>> THEN <<>>
  ELSE InsertStable(SortRecipients(SubSeq(rs, 1, Len(rs) - 1)), rs[Len(rs)])

RecipLine(r) ==
  <<"recip", r.label, r.mlkem_ct, r.wrap, r.wrap_nonce, r.wrapped_dek,
    r.x25519_pub, r.x25519_pk_fpr>>

\* A signing text that also covers the signature fields, standing in place of
\* CanonicalSerialize.
CanonicalSerialize_WithSignature(header) ==
  LET recipients == SortRecipients(header.recipients)
  IN << <<"qsfs/v2">>,
        <<"params: aesgcm256 mlkem1024">>,
        <<"chunk", header.chunk_size>>,
        <<"context", header.file_id>>,
        <<"aead: aes256gcm-v2">> >>
     \o [i \in 1..Len(recipients) |-> RecipLine(recipients[i])]
     \o << <<"hash_resvd", header.blake3_of_plain>>,
           <<"ephx25519", header.eph_x25519_pk>>,
           <<"sig", header.mldsa_sig, header.ed25519_sig, header.signature_metadata>>,
           <<"fin", header.fin>> >>

\* CanonicalHeader::serialize: the lines of the signing text, in order.
CanonicalSerialize(header) ==
  LET recipients == SortRecipients(header.recipients)
  IN << <<"qsfs/v2">>,
        <<"params: aesgcm256 mlkem1024">>,
        <<"chunk", header.chunk_size>>,
        <<"context", header.file_id>>,
        <<"aead: aes256gcm-v2">> >>
     \o [i \in 1..Len(recipients) |-> RecipLine(recipients[i])]
     \o << <<"hash_resvd", header.blake3_of_plain>>,
           <<"ephx25519", header.eph_x25519_pk>>,
           <<"fin", header.fin>> >>

\* SignatureMetadata::new: algorithm name fixed, public key base64-encoded.
CanonicalSignatureMetadataNew(signer_id, public_key) ==
  [signer_id |-> signer_id, algorithm |-> "ml-dsa-87", public_key |-> <<"b64", public_key>>]

\* general_purpose::STANDARD.decode of the metadata public key: Ok is Some.
Base64Decode(s) == IF s[1] = "b64" THEN Some(s[2]) ELSE None

\* ------------------------------------------ canonical.rs, the bytes themselves
\* The signing text as the characters serialize writes, for headers whose
\* fields are byte strings and whose labels are strings.
B64Alphabet ==
  <<"A", "B", "C", "D", "E", "F", "G", "H", "I", "J", "K", "L", "M", "N", "O", "P",
    "Q", "R", "S", "T", "U", "V", "W", "X", "Y", "Z", "a", "b", "c", "d", "e", "f",
    "g", "h", "i", "j", "k", "l", "m", "n", "o", "p", "q", "r", "s", "t", "u", "v",
    "w", "x", "y", "z", "0", "1", "2", "3", "4", "5", "6", "7", "8", "9", "+", "/">>

B64Char(v) == B64Alphabet[v + 1]

\* general_purpose::STANDARD.encode: three bytes to four characters, '=' padding.
RECURSIVE Base64Encode(_)
Base64Encode(b) ==
  IF Len(b) = 0 THEN ""
  ELSE IF Len(b) = 1
  THEN B64Char(b[1] \div 4) \o B64Char((b[1] % 4) * 16) \o "=="
  ELSE IF Len(b) = 2
  THEN B64Char(b[1] \div 4) \o B64Char((b[1] % 4) * 16 + (b[2] \div 16))
       \o B64Char((b[2] % 16) * 4) \o "="
  ELSE B64Char(b[1] \div 4) \o B64Char((b[1] % 4) * 16 + (b[2] \div 16))
       \o B64Char((b[2] % 16) * 4 + (b[3] \div 64)) \o B64Char(b[3] % 64)
       \o Base64Encode(SubSeq(b, 4, Len(b)))

HexDigits == <<"0", "1", "2", "3", "4", "5", "6", "7",
               "8", "9", "a", "b", "c", "d", "e", "f">>

\* canonical.rs 44-48: format!("{:02x}", b) for every byte
RECURSIVE HexEncode(_)
HexEncode(b) ==
  IF b = <<>> THEN ""
  ELSE HexDigits[(b[1] \div 16) + 1] \o HexDigits[(b[1] % 16) + 1]
       \o HexEncode(SubSeq(b, 2, Len(b)))

\* Vec<u8>::cmp: lexicographic order of two byte strings: -1, 0 or 1.
RECURSIVE BytesCmp(_, _)
BytesCmp(a, b) ==
  IF a = <<>> THEN (IF b = <<>> THEN 0 ELSE -1)
  ELSE IF b = <<>> THEN 1
  ELSE IF a[1] # b[1] THEN (IF a[1] < b[1] THEN -1 ELSE 1)
  ELSE BytesCmp(SubSeq(a, 2, Len(a)), SubSeq(b, 2, Len(b)))

RECURSIVE InsertStableBytes(_, _)
InsertStableBytes(s, r) ==
  IF s = <<>> THEN <<r>>
  ELSE IF BytesCmp(r.mlkem_ct, s[Len(s)].mlkem_ct) >= 0 THEN Append(s, r)
       ELSE Append(InsertStableBytes(SubSeq(s, 1, Len(s) - 1), r), s[Len(s)])

\* canonical.rs 34-35: recipients.sort_by(|a, b| a.mlkem_ct.cmp(&b.mlkem_ct))
RECURSIVE SortRecipientsBytes(_)
SortRecipientsBytes(rs) ==
  IF rs = <<>> THEN <<>>
  ELSE InsertStableBytes(SortRecipientsBytes(SubSeq(rs, 1, Len(rs) - 1)), rs[Len(rs)])

\* canonical.rs 37-56: the line of one recipient; the label is written as it is.
RecipLineText(r) ==
  "recip: label=" \o r.label
  \o " ct=" \o Base64Encode(r.mlkem_ct)
  \o " wrap_legacy=" \o Base64Encode(r.wrap)
  \o " gcm_nonce=" \o Base64Encode(r.wrap_nonce)
  \o " gcm_wrap=" \o Base64Encode(r.wrapped_dek)
  \o " x25519_pk=" \o Base64Encode(r.x25519_pub)
  \o " x25519_fpr=" \o HexEncode(r.x25519_pk_fpr)
  \o "\n"

RECURSIVE RecipLinesText(_)
RecipLinesText(rs) ==
  IF rs = <<>> THEN ""
  ELSE RecipLineText(rs[1]) \o RecipLinesText(SubSeq(rs, 2, Len(rs)))

\* CanonicalHeader::serialize, canonical.rs 14-71
CanonicalSerializeText(header) ==
  "qsfs/v2\n"
  \o "params: aesgcm256 mlkem1024\n"
  \o "chunk: " \o ToString(header.chunk_size) \o "\n"
  \o "context: " \o Base64Encode(header.file_id) \o "\n"
  \o "aead: aes256gcm-v2\n"
  \o RecipLinesText(SortRecipientsBytes(header.recipients))
  \o "hash_resvd: " \o Base64Encode(header.blake3_of_plain) \o "\n"
  \o "ephx25519: " \o Base64Encode(header.eph_x25519_pk) \o "\n"
  \o "fin: " \o ToString(header.fin) \o "\n"

\* ------------------------------------------------ storage encoding (postcard)
VarintLen(v) ==
  IF v < 128 THEN 1
  ELSE IF v < 16384 THEN 2
  ELSE IF v < 2097152 THEN 3
  ELSE IF v < 268435456 THEN 4 ELSE 5

BytesFieldLen(n) == VarintLen(n) + n

LabelLen(l) == IF l = "alice" THEN 5 ELSE 3

RecipientEntryLen(r) ==
  BytesFieldLen(LabelLen(r.label)) + BytesFieldLen(r.mlkem_ct.len)
  + BytesFieldLen(r.wrap.len) + BytesFieldLen(r.wrapped_dek.len) + 12 + 8
  + BytesFieldLen(32)

RECURSIVE SumLens(_)
SumLens(rs) ==
  IF rs = <<>> THEN 0
  ELSE IF Len(rs) = 1 THEN RecipientEntryLen(rs[1])
  ELSE LET m == Len(rs) \div 2
       IN SumLens(SubSeq(rs, 1, m)) + SumLens(SubSeq(rs, m + 1, Len(rs)))

\* Length in bytes of postcard::to_allocvec(&hdr).
HeaderBytesLen(h) ==
  6 + VarintLen(h.chunk_size) + 8 + 32 + 1
  + (IF h.kdf_salt = None THEN 1 ELSE 33)
  + VarintLen(Len(h.recipients)) + SumLens(h.recipients)
  + 32
  + (IF h.mldsa_sig = None THEN 1 ELSE BytesFieldLen(4627))
  + 1
  + (IF h.signature_metadata = None THEN 1
     ELSE 1 + BytesFieldLen(64) + BytesFieldLen(9) + BytesFieldLen(3456))
  + 1

\* ------------------------------------------------------------------ state
VARIABLES
  hybrid,      \* build feature "hybrid-x25519"
  trustStore,  \* signer ids of the trust database
  disk,        \* the files at the two output paths: disk.sealed, disk.plain
  req,         \* SealRequest
  seal_,       \* locals of the running seal (pc, cek, hdr, read offset, counter)
  sealTemp,    \* seal's NamedTempFile: None, or Some(file)
  input,       \* the file handed to unseal
  ctx,         \* UnsealContext
  un,          \* locals of the running unseal
  unTemp,      \* unseal's NamedTempFile: None, or Some(file)
  fx,          \* a call of one of the crate's pure functions: arguments, result
  par          \* operations running side by side: their temp files, the output paths

vars == <<hybrid, trustStore, disk, req, seal_, sealTemp, input, ctx, un, unTemp, fx, par>>

PriorFile == [kind |-> "prior"]
EmptyFile == [kind |-> "empty"]
ContainerFile(hdr_len, hdr, frames) ==
  [kind |-> "container", hdr_len |-> hdr_len, hdr |-> hdr, frames |-> frames]
PlainFile(data) == [kind |-> "plain", data |-> data]

\* One frame on disk: u32 chunk_no, u32 len, then the ciphertext; `avail` is the
\* number of the frame's bytes that are present in the file.
Frame(chunk_no, ct) ==
  [chunk_no |-> chunk_no, len |-> CtLen(ct), ct |-> ct,
   avail |-> FRAME_HDR_LEN + CtLen(ct)]

\* no function call in progress
NoCall == [fn |-> "none", arg |-> <<>>, out |-> None]

\* no operations side by side
NoPar == [ops |-> <<>>, files |-> <<>>]

SealIdle == [pc |-> "idle", cek |-> None, hdr |-> None, pos |-> 0, chunk_no |-> Wide(0),
             err |-> "", synced |-> FALSE, unzeroed |-> {}]
UnsealIdle ==
  [pc |-> "idle", hdr |-> None, rec |-> 1, cek |-> None, tried |-> <<>>,
   expected_chunk |-> Wide(0), total_chunks |-> Wide(0), pos |-> 1, err |-> "",
   verified |-> FALSE, trust_checked |-> FALSE, gate |-> FALSE,
   decaps |-> 0, unwraps |-> 0, aead_ops |-> 0, accepted |-> <<>>, synced |-> FALSE,
   unzeroed |-> {}]
NoInput == ContainerFile(0, None, <<>>)
NoCtx == [mlkem_sk |-> "", x25519_sk |-> None, allow_unsigned |-> FALSE,
          trust_any_signer |-> FALSE]

Init ==
  /\ hybrid \in BOOLEAN
  /\ trustStore = {id_hex("s1")}
  /\ disk = [sealed |-> PriorFile, plain |-> PriorFile]
  /\ req \in [input : Inputs, chunk_size : ChunkSizes,
              recipients : RecipientLists, signer : {None} \cup {Some(s) : s \in Signers}]
  /\ seal_ = SealIdle
  /\ sealTemp = None
  /\ input = NoInput
  /\ ctx = NoCtx
  /\ un = UnsealIdle
  /\ unTemp = None
  /\ fx = NoCall
  /\ par = NoPar

\* ------------------------------------------------------------- seal (lib.rs)
CEK == "cek1"
KDF_SALT == "salt1"
EPH_X == "eph"
ZERO32 == "zero32"
CONFIRM == "qsfs_confirm_v2"

\* lib.rs 70-106: the entry built for the i-th requested recipient.
SealRecipientEntry(i, who, kdf_salt, cek) ==
  LET enc == encapsulate(who, i)
      kek == IF hybrid
             THEN derive_kek(enc.ss, diffie_hellman(EPH_X, who), Some(kdf_salt))
             ELSE derive_kek(enc.ss, {}, Some(kdf_salt))
      wrap_nonce == <<"wrap_nonce", i>>
      wrapped_dek == wrap_dek(kek, wrap_nonce, cek)
  IN [label |-> who,
      mlkem_ct |-> enc.ct,
      wrap |-> wrapped_dek,
      wrapped_dek |-> wrapped_dek,
      wrap_nonce |-> wrap_nonce,
      x25519_pk_fpr |-> <<"blake3", who>>,
      x25519_pub |-> who]

\* lib.rs 113-129
SealHeader(r, cek, kdf_salt) ==
  [magic |-> MAGIC,
   chunk_size |-> AsU32(r.chunk_size),
   file_id |-> derive_file_nonce_seed(cek),
   blake3_of_plain |-> ZERO32,
   suite |-> SuiteCurrent(GcmSivFeature),
   kdf_salt |-> Some(kdf_salt),
   recipients |-> [i \in 1..Len(r.recipients) |->
                     SealRecipientEntry(i, r.recipients[i], kdf_salt, cek)],
   eph_x25519_pk |-> IF hybrid THEN EPH_X ELSE ZERO32,
   mldsa_sig |-> None,
   ed25519_sig |-> None,
   signature_metadata |-> None,
   fin |-> 1]

\* lib.rs 131-148
SealSign(hdr, signer_opt) ==
  IF signer_opt = None THEN hdr
  ELSE LET signer == signer_opt[1]
           canonical_bytes == CanonicalSerialize(hdr)
           signature == sign(signer, canonical_bytes)
           sig_metadata == CanonicalSignatureMetadataNew(id_hex(signer), signer)
       IN [hdr EXCEPT !.mldsa_sig = Some(signature),
                      !.signature_metadata = Some(sig_metadata)]

\* lib.rs 47-148: CEK, recipients, header, signature.
SealPrepare ==
  /\ seal_.pc = "idle"
  /\ seal_' = [seal_ EXCEPT !.pc = "prepared", !.cek = Some(CEK),
                            !.hdr = Some(SealSign(SealHeader(req, CEK, KDF_SALT), req.signer))]
  /\ UNCHANGED <<fx, par, hybrid, trustStore, disk, req, sealTemp, input, ctx, un, unTemp>>

\* lib.rs 150-155: NamedTempFile::new_in(output_dir)
SealCreateTemp ==
  /\ seal_.pc = "prepared"
  /\ sealTemp' = Some(EmptyFile)
  /\ seal_' = [seal_ EXCEPT !.pc = "temp"]
  /\ UNCHANGED <<fx, par, hybrid, trustStore, disk, req, input, ctx, un, unTemp>>

\* lib.rs 157-163: header length and header bytes into the temp file.
SealWriteHeader ==
  /\ seal_.pc = "temp"
  /\ sealTemp' = Some(ContainerFile(AsU32(HeaderBytesLen(seal_.hdr[1])), seal_.hdr, <<>>))
  /\ seal_' = [seal_ EXCEPT !.pc = "stream"]
  /\ UNCHANGED <<fx, par, hybrid, trustStore, disk, req, input, ctx, un, unTemp>>

\* streaming.rs 60-71: the chunk-size check, then the input is opened.
EncryptStreamStart ==
  /\ seal_.pc = "stream"
  /\ IF req.chunk_size > MAX_CHUNK_SIZE
     THEN /\ seal_' = [seal_ EXCEPT !.pc = "failed", !.err = "ChunkTooLarge"]
          /\ sealTemp' = None
     ELSE /\ seal_' = [seal_ EXCEPT !.pc = "loop", !.pos = 0, !.chunk_no = Wide(0)]
          /\ UNCHANGED sealTemp
  /\ UNCHANGED <<fx, par, hybrid, trustStore, disk, req, input, ctx, un, unTemp>>

\* What f.read(&mut buf) may return with `remaining` bytes left and a buffer of
\* chunk_size bytes: 0 at end of file or for an empty buffer, else 1..=min.
ReadSizes(chunk_size, remaining) ==
  IF Min(chunk_size, remaining) = 0 THEN {0} ELSE 1..Min(chunk_size, remaining)

\* streaming.rs 73-111: one iteration of the chunk loop; a read of 0 bytes ends
\* it: sync_all, Ok.
EncryptChunk ==
  /\ seal_.pc = "loop"
  /\ \E n \in ReadSizes(req.chunk_size, Len(req.input) - seal_.pos) :
       IF n = 0
       THEN /\ seal_' = [seal_ EXCEPT !.pc = "synced", !.synced = TRUE]
            /\ UNCHANGED sealTemp
       ELSE IF WideGe(seal_.chunk_no, MAX_CHUNKS)
       THEN /\ seal_' = [seal_ EXCEPT !.pc = "failed", !.err = "TooManyChunks",
                                      !.unzeroed = @ \cup {"buf"}]
            /\ sealTemp' = None
       ELSE LET hdr == seal_.hdr[1]
                keys == hkdf_expand_keys(seal_.cek[1], CONFIRM)
                n96 == nonce_96(hdr.file_id, seal_.chunk_no)
                pt == SubSeq(req.input, seal_.pos + 1, seal_.pos + n)
                ct_outer == AeadEncrypt(keys.aes_k1, n96, aead_aad(hdr), pt)
                file == sealTemp[1]
            IN IF CheckedAdd1(seal_.chunk_no) = None
               THEN /\ seal_' = [seal_ EXCEPT !.pc = "failed", !.err = "ChunkOverflow",
                                              !.unzeroed = @ \cup {"buf", "ct_inner"}]
                    /\ sealTemp' = None
               ELSE /\ seal_' = [seal_ EXCEPT !.chunk_no = CheckedAdd1(@)[1], !.pos = @ + n,
                                              !.unzeroed = @ \cup {"ct_inner"}]
                    /\ sealTemp' = Some([file EXCEPT !.frames =
                                           Append(@, Frame(seal_.chunk_no, ct_outer))])
  /\ UNCHANGED <<fx, par, hybrid, trustStore, disk, req, input, ctx, un, unTemp>>

\* lib.rs 174-180: sync_all, temp_file.persist(output_path)
SealPersist ==
  /\ seal_.pc = "synced"
  /\ disk' = [disk EXCEPT !.sealed = sealTemp[1]]
  /\ sealTemp' = None
  /\ seal_' = [seal_ EXCEPT !.pc = "done"]
  /\ UNCHANGED <<fx, par, hybrid, trustStore, req, input, ctx, un, unTemp>>

\* An I/O error (`?`) or the caller dropping the future at any suspension point:
\* the NamedTempFile is dropped, which unlinks it.
SealAbort ==
  /\ seal_.pc \in {"prepared", "temp", "stream", "loop", "synced"}
  /\ seal_' = [seal_ EXCEPT !.pc = "failed", !.err = "IoFailure"]
  /\ sealTemp' = None
  /\ UNCHANGED <<fx, par, hybrid, trustStore, disk, req, input, ctx, un, unTemp>>

\* ------------------------------------------- the file that reaches unseal
FlipBit0(v) == IF v % 2 = 0 THEN v + 1 ELSE v - 1

OtherSuite(suite) == IF suite = "Aes256Gcm" THEN "Aes256GcmSiv" ELSE "Aes256Gcm"

\* A partial frame: only `avail` of its bytes exist.
Cut(frame, avail) == [frame EXCEPT !.avail = avail]

StrayFrame(avail) ==
  [chunk_no |-> Wide(0), len |-> 0, ct |-> AeadEncrypt(<<>>, <<>>, <<>>, <<>>),
   avail |-> avail]

\* A key pair outside the trust store, and the trusted signer whose id the
\* holder of that key writes into the metadata of what it signs.
Forger == "s2"
Vouched == "s1"

\* The ways a published container may differ from what unseal is given.
Tampers(file) ==
  LET h == file.hdr[1]
      n == Len(file.frames)
  IN {[kind |-> k, i |-> 0] :
        k \in {"none", "suite", "chunk_size", "file_id", "kdf_salt", "stray", "resign"}}
     \cup {[kind |-> k, i |-> 0] :
             k \in IF h.mldsa_sig # None
                   THEN {"sig_flip", "sig_strip", "meta_drop"} ELSE {}}
     \cup {[kind |-> "ct_flip", i |-> i] : i \in 1..n}
     \cup {[kind |-> k, i |-> 0] : k \in {"magic", "hdr_len"}}
     \cup {[kind |-> k, i |-> 1] :
             k \in IF Len(h.recipients) >= 1 THEN {"legacy_only", "ct_short"} ELSE {}}
     \cup {[kind |-> k, i |-> 0] :
             k \in IF n >= 1 THEN {"dup", "drop_last", "trunc_hdr", "trunc_body"} ELSE {}}
     \cup {[kind |-> k, i |-> 0] : k \in IF n >= 2 THEN {"swap"} ELSE {}}

Tamper(file, t) ==
  LET h == file.hdr[1]
      fr == file.frames
      n == Len(fr)
      WithHdr(g) == [file EXCEPT !.hdr = Some(g), !.hdr_len = HeaderBytesLen(g)]
      WithFrames(g) == [file EXCEPT !.frames = g]
  IN CASE t.kind = "none" -> file
       [] t.kind = "suite" -> WithHdr([h EXCEPT !.suite = OtherSuite(@)])
       [] t.kind = "chunk_size" -> WithHdr([h EXCEPT !.chunk_size = FlipBit0(@)])
       [] t.kind = "file_id" ->
            WithHdr([h EXCEPT !.file_id = derive_file_nonce_seed("flipped")])
       [] t.kind = "kdf_salt" -> WithHdr([h EXCEPT !.kdf_salt = Some("salt1-flipped")])
       [] t.kind = "sig_flip" ->
            WithHdr([h EXCEPT !.mldsa_sig = Some([@[1] EXCEPT !.flip = TRUE])])
       [] t.kind = "resign" ->
            WithHdr([h EXCEPT
              !.mldsa_sig = Some(sign(Forger, CanonicalSerialize(h))),
              !.signature_metadata =
                Some(CanonicalSignatureMetadataNew(id_hex(Vouched), Forger))])
       [] t.kind = "magic" -> WithHdr([h EXCEPT !.magic = "QSFS1"])
       [] t.kind = "hdr_len" -> [file EXCEPT !.hdr_len = MAX_HEADER_LEN + 1]
       [] t.kind = "legacy_only" ->
            WithHdr([h EXCEPT !.recipients[t.i].wrapped_dek.len = 0])
       [] t.kind = "ct_short" ->
            WithHdr([h EXCEPT !.recipients[t.i].mlkem_ct.len = @ - 1])
       [] t.kind = "sig_strip" -> WithHdr([h EXCEPT !.mldsa_sig = None])
       [] t.kind = "meta_drop" -> WithHdr([h EXCEPT !.signature_metadata = None])
       [] t.kind = "ct_flip" -> WithFrames([fr EXCEPT ![t.i].ct.flip = TRUE])
       [] t.kind = "dup" -> WithFrames(Append(fr, fr[n]))
       [] t.kind = "drop_last" -> WithFrames(SubSeq(fr, 1, n - 1))
       [] t.kind = "swap" -> WithFrames([fr EXCEPT ![1] = fr[2], ![2] = fr[1]])
       [] t.kind = "trunc_hdr" -> WithFrames([fr EXCEPT ![n] = Cut(@, FRAME_HDR_LEN - 1)])
       [] t.kind = "trunc_body" -> WithFrames([fr EXCEPT ![n] = Cut(@, @.avail - 1)])
       [] t.kind = "stray" -> WithFrames(Append(fr, StrayFrame(3)))

\* The identity whose ML-KEM secret key the caller of unseal holds. Files are
\* sealed to every list over Identities, so one caller meets every position,
\* and absence, in the recipient list.
Caller == "alice"

\* The contexts a caller may pass. A build without hybrid-x25519 never reads
\* x25519_sk, so one value of it is enough there.
Contexts ==
  [mlkem_sk : {Caller},
   x25519_sk : IF hybrid THEN {None} \cup {Some(k) : k \in Identities} ELSE {None},
   allow_unsigned : BOOLEAN,
   trust_any_signer : BOOLEAN]

\* ----------------------------------------------------------- unseal (lib.rs)
UnsealFail(err) == [un EXCEPT !.pc = "failed", !.err = err]

\* A header read that never looks at the magic, standing in place of ReadHeader.
ReadHeader_AnyMagic(file) ==
  IF file.hdr_len > MAX_HEADER_LEN THEN UnsealFail("HeaderTooLarge")
  ELSE IF file.hdr = None \/ file.hdr_len # HeaderBytesLen(file.hdr[1])
  THEN UnsealFail("HeaderDecode")
  ELSE [un EXCEPT !.pc = "verify", !.hdr = file.hdr]

\* lib.rs 187-202: length, header bytes, parse, magic.
ReadHeader(file) ==
  IF file.hdr_len > MAX_HEADER_LEN THEN UnsealFail("HeaderTooLarge")
  ELSE IF file.hdr = None \/ file.hdr_len # HeaderBytesLen(file.hdr[1])
  THEN UnsealFail("HeaderDecode")
  ELSE IF file.hdr[1].magic # MAGIC THEN UnsealFail("BadMagic")
  ELSE [un EXCEPT !.pc = "verify", !.hdr = file.hdr]

\* The caller opens a file and calls unseal with a context; unseal reads the
\* header (lib.rs 183-202).
UnsealReadHeader ==
  /\ seal_.pc = "done"
  /\ un.pc = "idle"
  /\ \E t \in Tampers(disk.sealed), c \in Contexts :
       /\ input' = Tamper(disk.sealed, t)
       /\ ctx' = c
       /\ un' = ReadHeader(Tamper(disk.sealed, t))
  /\ UNCHANGED <<fx, par, hybrid, trustStore, disk, req, seal_, sealTemp, unTemp>>

RecipientsPc(hdr, rec) == IF rec > Len(hdr.recipients) THEN "adopt" ELSE "recipients"

\* An unsigned header let through whatever allow_unsigned says.
UnsignedBranch_Open(c) == ""

\* lib.rs 235-243: a header without signature.
UnsignedBranch(c) == IF ~c.allow_unsigned THEN "Unsigned" ELSE ""

\* lib.rs 220-229: the trust store is loaded and asked unless trust_any_signer.
TrustBranch(c, store, signer_id) ==
  IF ~c.trust_any_signer
  THEN [err |-> IF ~is_trusted(store, signer_id) THEN "SignerUntrusted" ELSE "",
        trust_checked |-> TRUE]
  ELSE [err |-> "", trust_checked |-> FALSE]

\* lib.rs 209-231: a signature with its metadata.
SignedBranch(hdr, c, store) ==
  LET canonical_bytes == CanonicalSerialize(hdr)
      sig_metadata == hdr.signature_metadata[1]
      public_key_bytes == Base64Decode(sig_metadata.public_key)
  IN IF public_key_bytes = None
     THEN [err |-> "InvalidPublicKey", verified |-> FALSE, trust_checked |-> FALSE]
     ELSE IF ~verify_signature(canonical_bytes, hdr.mldsa_sig[1], public_key_bytes[1])
     THEN [err |-> "SignatureInvalid", verified |-> FALSE, trust_checked |-> FALSE]
     ELSE LET trust == TrustBranch(c, store, sig_metadata.signer_id)
          IN [err |-> trust.err, verified |-> TRUE, trust_checked |-> trust.trust_checked]

\* A verification block that treats a signature without metadata as no
\* signature at all.
VerifyOutcome_MetaOptional(hdr, c, store) ==
  IF hdr.mldsa_sig # None /\ hdr.signature_metadata # None
  THEN SignedBranch(hdr, c, store)
  ELSE [err |-> UnsignedBranch(c), verified |-> FALSE, trust_checked |-> FALSE]

\* lib.rs 204-243: the outcome of the verification block; err "" lets unseal go on.
VerifyOutcome(hdr, c, store) ==
  IF hdr.mldsa_sig # None
  THEN IF hdr.signature_metadata # None
       THEN SignedBranch(hdr, c, store)
       ELSE [err |-> "SignatureMetadataMissing", verified |-> FALSE, trust_checked |-> FALSE]
  ELSE [err |-> UnsignedBranch(c), verified |-> FALSE, trust_checked |-> FALSE]

\* lib.rs 204-243: signature, trust store, unsigned gate.
UnsealVerify ==
  /\ un.pc = "verify"
  /\ LET hdr == un.hdr[1]
         out == VerifyOutcome(hdr, ctx, trustStore)
     IN un' = IF out.err # ""
              THEN [UnsealFail(out.err) EXCEPT !.verified = out.verified,
                                               !.trust_checked = out.trust_checked]
              ELSE [un EXCEPT !.pc = RecipientsPc(hdr, 1), !.rec = 1, !.gate = TRUE,
                              !.verified = out.verified,
                              !.trust_checked = out.trust_checked]
  /\ UNCHANGED <<fx, par, hybrid, trustStore, disk, req, seal_, sealTemp, input, ctx, unTemp>>

\* lib.rs 247-279: one iteration of the recipient loop. The KEK is a plain
\* [u8; 32] that goes out of scope at the end of the iteration as it is.
UnsealTryRecipient ==
  /\ un.pc = "recipients"
  /\ LET hdr == un.hdr[1]
         rec == hdr.recipients[un.rec]
         skip == [un EXCEPT !.rec = @ + 1, !.pc = RecipientsPc(hdr, un.rec + 1)]
     IN un' =
          IF ~CiphertextFromBytesOk(rec.mlkem_ct) THEN skip
          ELSE LET ss == decapsulate(rec.mlkem_ct, ctx.mlkem_sk)
                   decapsed == [skip EXCEPT !.decaps = @ + 1]
               IN IF hybrid /\ ctx.x25519_sk = None
                  THEN [UnsealFail("X25519Required") EXCEPT !.decaps = @ + 1]
                  ELSE LET x_ss == IF hybrid
                                   THEN diffie_hellman(ctx.x25519_sk[1], hdr.eph_x25519_pk)
                                   ELSE {}
                           kek == derive_kek(ss, x_ss, hdr.kdf_salt)
                       IN IF rec.wrapped_dek.len = WRAPPED_DEK_LEN
                          THEN LET cek == unwrap_dek(kek, rec.wrap_nonce, rec.wrapped_dek)
                               IN IF cek # None
                                  THEN [un EXCEPT !.cek = cek, !.pc = "adopt",
                                                  !.decaps = @ + 1, !.unwraps = @ + 1,
                                                  !.tried = Append(@, <<un.rec, TRUE>>),
                                                  !.unzeroed = @ \cup {"kek"}]
                                  ELSE [decapsed EXCEPT
                                          !.unwraps = @ + 1,
                                          !.tried = Append(@, <<un.rec, FALSE>>),
                                          !.unzeroed = @ \cup {"kek"}]
                          ELSE [decapsed EXCEPT !.unzeroed = @ \cup {"kek"}]
  /\ UNCHANGED <<fx, par, hybrid, trustStore, disk, req, seal_, sealTemp, input, ctx, unTemp>>

\* lib.rs 281-293: the loop's outcome, the stream keys, the temp file.
UnsealCreateTemp ==
  /\ un.pc = "adopt"
  /\ IF un.cek = None
     THEN /\ un' = UnsealFail("NoMatchingRecipient")
          /\ UNCHANGED unTemp
     ELSE /\ un' = [un EXCEPT !.pc = "decrypt", !.expected_chunk = Wide(0),
                              !.total_chunks = Wide(0), !.pos = 1]
          /\ unTemp' = Some(PlainFile(<<>>))
  /\ UNCHANGED <<fx, par, hybrid, trustStore, disk, req, seal_, sealTemp, input, ctx>>

\* A loop that takes whatever number the frame carries.
ChunkInOrder_Any(chunk_no, expected_chunk) == TRUE

\* streaming.rs 143: the frame's number against the counter.
ChunkInOrder(chunk_no, expected_chunk) == chunk_no = expected_chunk

\* streaming.rs 131-181: one iteration of decrypt_stream's loop. read_exact of
\* the 8-byte frame header returns UnexpectedEof unless all 8 bytes are there,
\* and that ends the loop: sync_all, Ok.
DecryptFrame ==
  /\ un.pc = "decrypt"
  /\ LET hdr == un.hdr[1]
         keys == hkdf_expand_keys(un.cek[1], CONFIRM)
         aad == aead_aad(hdr)
         fail(err) == /\ un' = UnsealFail(err)
                      /\ unTemp' = None
     IN IF un.pos > Len(input.frames) \/ input.frames[un.pos].avail < FRAME_HDR_LEN
        THEN /\ un' = [un EXCEPT !.pc = "synced", !.synced = TRUE]
             /\ UNCHANGED unTemp
        ELSE LET f == input.frames[un.pos]
                 chunk_no == f.chunk_no
                 len == f.len
             IN IF ~ChunkInOrder(chunk_no, un.expected_chunk) THEN fail("ChunkOutOfOrder")
                ELSE IF len > MAX_CHUNK_SIZE + 16 THEN fail("ChunkTooLarge")
                ELSE IF WideGe(un.total_chunks, MAX_CHUNKS) THEN fail("TooManyChunks")
                ELSE IF f.avail < FRAME_HDR_LEN + len THEN fail("UnexpectedEof")
                ELSE LET n96 == nonce_96(hdr.file_id, chunk_no)
                         inner == AeadDecrypt(keys.aes_k1, n96, aad, f.ct)
                     IN IF inner = None
                        THEN /\ un' = [UnsealFail("AeadTagFailure") EXCEPT !.aead_ops = @ + 1]
                             /\ unTemp' = None
                        ELSE IF CheckedAdd1(un.expected_chunk) = None
                        THEN /\ un' = [UnsealFail("ChunkOverflow") EXCEPT
                                          !.aead_ops = @ + 1,
                                          !.unzeroed = @ \cup {"pt"}]
                             /\ unTemp' = None
                        ELSE /\ unTemp' = Some([unTemp[1] EXCEPT !.data = @ \o inner[1]])
                             /\ un' = [un EXCEPT !.expected_chunk = CheckedAdd1(@)[1],
                                                 !.total_chunks = WideInc(@),
                                                 !.pos = @ + 1,
                                                 !.aead_ops = @ + 1,
                                                 !.accepted = Append(@, chunk_no),
                                                 !.unzeroed = @ \cup {"pt"}]
  /\ UNCHANGED <<fx, par, hybrid, trustStore, disk, req, seal_, sealTemp, input, ctx>>

\* lib.rs 300-306: sync_all, temp_file.persist(output_path)
UnsealPersist ==
  /\ un.pc = "synced"
  /\ disk' = [disk EXCEPT !.plain = unTemp[1]]
  /\ unTemp' = None
  /\ un' = [un EXCEPT !.pc = "done"]
  /\ UNCHANGED <<fx, par, hybrid, trustStore, req, seal_, sealTemp, input, ctx>>

\* A failure path that keeps the temp file by renaming it to the output path.
UnsealAbort_Publish ==
  /\ un.pc \in {"decrypt", "synced"}
  /\ un' = UnsealFail("IoFailure")
  /\ disk' = [disk EXCEPT !.plain = unTemp[1]]
  /\ unTemp' = None
  /\ UNCHANGED <<fx, par, hybrid, trustStore, req, seal_, sealTemp, input, ctx>>

\* An I/O error (`?`) or the caller dropping the future at any suspension point:
\* the NamedTempFile, if any, is dropped, which unlinks it.
UnsealAbort ==
  /\ un.pc \in {"decrypt", "synced"}
  /\ un' = UnsealFail("IoFailure")
  /\ unTemp' = None
  /\ UNCHANGED <<fx, par, hybrid, trustStore, disk, req, seal_, sealTemp, input, ctx>>

Next ==
  \/ SealPrepare
  \/ SealCreateTemp
  \/ SealWriteHeader
  \/ EncryptStreamStart
  \/ EncryptChunk
  \/ SealPersist
  \/ SealAbort
  \/ UnsealReadHeader
  \/ UnsealVerify
  \/ UnsealTryRecipient
  \/ UnsealCreateTemp
  \/ DecryptFrame
  \/ UnsealPersist
  \/ UnsealAbort

Spec == Init /\ [][Next]_vars

\* seal alone: every request, from the call to the published container
SealNext ==
  \/ SealPrepare
  \/ SealCreateTemp
  \/ SealWriteHeader
  \/ EncryptStreamStart
  \/ EncryptChunk
  \/ SealPersist
  \/ SealAbort

SealSpec == Init /\ [][SealNext]_vars

\* ------------------------------------------ streams near the counter's limit
\* encrypt_stream and decrypt_stream taken up inside their loops, a few chunks
\* before chunk number 2^32 - 1. The frames and the bytes handled before that
\* point are left out of the files; the counters carry their number.
MaxTail == 3

\* the counter values 2^32 - MaxTail .. 2^32 - 1
CounterStarts == {[hi |-> LIMB - 1, lo |-> LIMB - d] : d \in 1..MaxTail}

\* how many chunks fit from counter value c up to chunk number 2^32 - 1
ChunksLeft(c) == LIMB - c.lo

TailHeader(chunk_size) ==
  SealHeader([chunk_size |-> chunk_size, recipients |-> <<Caller>>], CEK, KDF_SALT)

\* the frames encrypt_stream writes for n one-byte chunks from counter value c
RECURSIVE TailFrames(_, _, _)
TailFrames(h, c, n) ==
  IF n = 0 THEN <<>>
  ELSE <<Frame(c, AeadEncrypt(hkdf_expand_keys(CEK, CONFIRM).aes_k1,
                             nonce_96(h.file_id, c), aead_aad(h), <<1>>))>>
       \o TailFrames(h, WideInc(c), n - 1)

\* encrypt_stream in its loop with counter value c
SealInLoop(c, data, chunk_size) ==
  /\ req = [input |-> data, chunk_size |-> chunk_size, recipients |-> <<Caller>>,
            signer |-> None]
  /\ seal_ = [SealIdle EXCEPT !.pc = "loop", !.cek = Some(CEK),
                              !.hdr = Some(TailHeader(chunk_size)), !.chunk_no = c]
  /\ sealTemp = Some(ContainerFile(HeaderBytesLen(TailHeader(chunk_size)),
                                   Some(TailHeader(chunk_size)), <<>>))
  /\ disk = [sealed |-> PriorFile, plain |-> PriorFile]
  /\ input = NoInput
  /\ ctx = NoCtx
  /\ un = UnsealIdle
  /\ unTemp = None

\* decrypt_stream in its loop with both counters at c, n frames still to read
UnsealInLoop(c, n, chunk_size) ==
  LET h == TailHeader(chunk_size)
      file == ContainerFile(HeaderBytesLen(h), Some(h), TailFrames(h, c, n))
  IN /\ req = [input |-> [i \in 1..n |-> 1], chunk_size |-> chunk_size,
               recipients |-> <<Caller>>, signer |-> None]
     /\ seal_ = [SealIdle EXCEPT !.pc = "done", !.cek = Some(CEK), !.hdr = Some(h),
                                 !.synced = TRUE]
     /\ sealTemp = None
     /\ disk = [sealed |-> file, plain |-> PriorFile]
     /\ input = file
     /\ ctx = [mlkem_sk |-> Caller, x25519_sk |-> None, allow_unsigned |-> TRUE,
               trust_any_signer |-> FALSE]
     /\ un = [UnsealIdle EXCEPT !.pc = "decrypt", !.hdr = Some(h), !.cek = Some(CEK),
                                !.gate = TRUE, !.expected_chunk = c,
                                !.total_chunks = c, !.pos = 1]
     /\ unTemp = Some(PlainFile(<<>>))

CounterInit ==
  /\ hybrid = FALSE
  /\ trustStore = {id_hex("s1")}
  /\ fx = NoCall
  /\ par = NoPar
  /\ \E c \in CounterStarts, chunk_size \in {1, 2} :
       \/ \E n \in 0..(MaxTail + 1) : SealInLoop(c, [i \in 1..n |-> 1], chunk_size)
       \/ \E n \in 0..ChunksLeft(c) : UnsealInLoop(c, n, chunk_size)

CounterNext ==
  \/ EncryptChunk
  \/ SealPersist
  \/ DecryptFrame
  \/ UnsealPersist

CounterSpec == CounterInit /\ [][CounterNext]_vars

\* ------------------------------------- the crate's pure functions, called alone
\* Longest recipient list handed to CanonicalHeader::serialize.
MaxPermLen == 3

\* The rest of the state while a function is called on its own.
Quiet ==
  /\ hybrid = FALSE
  /\ trustStore = {id_hex("s1")}
  /\ disk = [sealed |-> PriorFile, plain |-> PriorFile]
  /\ req = [input |-> <<>>, chunk_size |-> 1, recipients |-> <<>>, signer |-> None]
  /\ seal_ = SealIdle
  /\ sealTemp = None
  /\ input = NoInput
  /\ ctx = NoCtx
  /\ un = UnsealIdle
  /\ unTemp = None

Call(fn, arg) == [fn |-> fn, arg |-> arg, out |-> None]

\* A header as seal builds it, with the given recipient entries.
HeaderWith(rs) ==
  [SealHeader([chunk_size |-> 1, recipients |-> <<>>], CEK, KDF_SALT)
     EXCEPT !.recipients = rs]

\* Recipient entries: two with different ML-KEM ciphertexts, and one that
\* shares its ciphertext with the first and differs in its label.
CanonEntries ==
  {SealRecipientEntry(1, "alice", KDF_SALT, CEK),
   SealRecipientEntry(2, "bob", KDF_SALT, CEK),
   [SealRecipientEntry(1, "alice", KDF_SALT, CEK) EXCEPT !.label = "bob"]}

Permute(rs, p) == [i \in 1..Len(rs) |-> rs[p[i]]]

\* serialize called on a header and on the same header with its recipients
\* list permuted
CanonicalCalls ==
  UNION {{Call("canonical", <<rs, p>>) : p \in Permutations(1..Len(rs))} :
           rs \in SeqsUpTo(CanonEntries, MaxPermLen)}

CanonicalCall ==
  /\ fx.fn = "canonical"
  /\ fx.out = None
  /\ LET h == HeaderWith(fx.arg[1])
         g == HeaderWith(Permute(fx.arg[1], fx.arg[2]))
     IN fx' = [fx EXCEPT !.out = Some(<<CanonicalSerialize(h), CanonicalSerialize(g)>>)]
  /\ UNCHANGED <<par, hybrid, trustStore, disk, req, seal_, sealTemp, input, ctx, un, unTemp>>

\* Header fields the PAE reads: the values of the known-answer test of
\* kat_v2.rs and values next to them.
KatFileId == <<142, 175, 1, 93, 155, 44, 21, 40>>
PaeFileIds == {KatFileId, <<142, 175, 1, 93, 155, 44, 21, 41>>}
PaeSalts == {[i \in 1..32 |-> 7], [i \in 1..32 |-> IF i = 32 THEN 8 ELSE 7]}
PaeChunkSizes == {0, 1, 256, 131072, MAX_CHUNK_SIZE}
PaeHeaders ==
  {[HeaderWith(<<>>) EXCEPT !.suite = su, !.chunk_size = cs, !.file_id = id,
                            !.kdf_salt = salt] :
     su \in Suites, cs \in PaeChunkSizes, id \in PaeFileIds,
     salt \in {None} \cup {Some(b) : b \in PaeSalts}}

\* pae_v2_compat called on two headers
PaeCalls == {Call("pae", <<h, g>>) : h \in PaeHeaders, g \in PaeHeaders}

PaeCall ==
  /\ fx.fn = "pae"
  /\ fx.out = None
  /\ fx' = [fx EXCEPT !.out = Some(<<PaeBytes(pae_v2_compat(fx.arg[1])),
                                     PaeBytes(pae_v2_compat(fx.arg[2]))>>)]
  /\ UNCHANGED <<par, hybrid, trustStore, disk, req, seal_, sealTemp, input, ctx, un, unTemp>>

\* Keys, nonces and DEKs for wrap_dek and unwrap_dek, and what can happen to
\* the wrapped bytes between the two.
WrapKeks ==
  {derive_kek(ss, {}, salt) : ss \in {"ss1", "ss2"}, salt \in {None, Some(KDF_SALT)}}
WrapNonces == {<<"wrap_nonce", i>> : i \in 1..2}
WrapDeks == {CEK, "cek2"}
WrapAlterations == {"none", "flip", "short", "long", "empty"}

AlterWrapped(w, how) ==
  CASE how = "none" -> w
    [] how = "flip" -> [w EXCEPT !.flip = TRUE]
    [] how = "short" -> [w EXCEPT !.len = @ - 1]
    [] how = "long" -> [w EXCEPT !.len = @ + 1]
    [] how = "empty" -> [w EXCEPT !.len = 0]

\* wrap_dek(kek, nonce, dek), then unwrap_dek(kek2, nonce2, altered bytes)
WrapCalls ==
  {Call("wrap", [kek |-> k, nonce |-> n, dek |-> d, kek2 |-> k2, nonce2 |-> n2,
                 how |-> how]) :
     k \in WrapKeks, n \in WrapNonces, d \in WrapDeks, k2 \in WrapKeks,
     n2 \in WrapNonces, how \in WrapAlterations}

WrapCall ==
  /\ fx.fn = "wrap"
  /\ fx.out = None
  /\ LET a == fx.arg
         w == wrap_dek(a.kek, a.nonce, a.dek)
     IN fx' = [fx EXCEPT !.out = Some([wrapped |-> w,
                 unwrapped |-> unwrap_dek(a.kek2, a.nonce2, AlterWrapped(w, a.how))])]
  /\ UNCHANGED <<par, hybrid, trustStore, disk, req, seal_, sealTemp, input, ctx, un, unTemp>>

\* Recipient lists handed to seal, by their length: short ones, with and
\* without a signer, and the two lengths on either side of the point where the
\* header without a signature, the shorter of the two, passes MAX_HEADER_LEN.
ShortRecipientCounts == {0, 1, 2}
LongRecipientCounts == {607, 608}

HeaderLenCalls ==
  {Call("header_len", [n |-> n, signer |-> sg]) :
     n \in ShortRecipientCounts, sg \in {None, Some("s1")}}
  \cup {Call("header_len", [n |-> n, signer |-> None]) : n \in LongRecipientCounts}

\* lib.rs 55-161 followed by lib.rs 187-202: the header seal builds for the
\* request, the length it writes in front of it, and what unseal's header read
\* makes of the two.
HeaderLenCall ==
  /\ fx.fn = "header_len"
  /\ fx.out = None
  /\ LET r == [chunk_size |-> 1, recipients |-> [i \in 1..fx.arg.n |-> "alice"]]
         hdr == SealSign(SealHeader(r, CEK, KDF_SALT), fx.arg.signer)
         hdr_len == AsU32(HeaderBytesLen(hdr))
         read == ReadHeader(ContainerFile(hdr_len, Some(hdr), <<>>))
     IN fx' = [fx EXCEPT !.out = Some([hdr_len |-> hdr_len,
                                       pc |-> read.pc, err |-> read.err])]
  /\ UNCHANGED <<par, hybrid, trustStore, disk, req, seal_, sealTemp, input, ctx, un, unTemp>>

\* Headers given byte by byte. serialize takes any Header: the Vec<u8> fields
\* are short here, the arrays have their lengths.
Zeros(n) == [i \in 1..n |-> 0]

TextEntry0 ==
  [label |-> "alice", mlkem_ct |-> <<1>>, wrap |-> <<2>>, wrapped_dek |-> <<2>>,
   wrap_nonce |-> Zeros(12), x25519_pub |-> Zeros(32), x25519_pk_fpr |-> Zeros(8)]

TextEntry1 ==
  [label |-> "bob", mlkem_ct |-> <<9>>, wrap |-> <<3>>, wrapped_dek |-> <<3>>,
   wrap_nonce |-> [Zeros(12) EXCEPT ![12] = 1], x25519_pub |-> Zeros(32),
   x25519_pk_fpr |-> [Zeros(8) EXCEPT ![8] = 1]]

TextLabels == {"alice", "bob", "a b", "a=b", "a\nb", "alice ct=AQ=="}

\* e, and e with one field changed
TextVariants(e) ==
  {[e EXCEPT !.label = l] : l \in TextLabels}
  \cup {[e EXCEPT !.mlkem_ct = <<4>>],
        [e EXCEPT !.wrap = <<5>>],
        [e EXCEPT !.wrapped_dek = <<5>>],
        [e EXCEPT !.wrap_nonce[1] = 7],
        [e EXCEPT !.x25519_pub[32] = 7],
        [e EXCEPT !.x25519_pk_fpr[1] = 7]}

\* A label that holds the rest of a's line, a line break, and the start of a
\* further recipient line with the given label.
SplicedLabel(a, label) ==
  a.label
  \o " ct=" \o Base64Encode(a.mlkem_ct)
  \o " wrap_legacy=" \o Base64Encode(a.wrap)
  \o " gcm_nonce=" \o Base64Encode(a.wrap_nonce)
  \o " gcm_wrap=" \o Base64Encode(a.wrapped_dek)
  \o " x25519_pk=" \o Base64Encode(a.x25519_pub)
  \o " x25519_fpr=" \o HexEncode(a.x25519_pk_fpr)
  \o "\nrecip: label=" \o label

TextLists ==
  {<<>>}
  \cup {<<e>> : e \in TextVariants(TextEntry0)}
  \cup {<<TextEntry0, TextEntry1>>, <<TextEntry1, TextEntry0>>,
        <<[TextEntry1 EXCEPT !.label = SplicedLabel(TextEntry0, TextEntry1.label)]>>}

TextHeader(rs) ==
  [chunk_size |-> 131072, file_id |-> KatFileId, recipients |-> rs,
   blake3_of_plain |-> Zeros(32), eph_x25519_pk |-> Zeros(32), fin |-> 1]

CanonicalTextCalls ==
  {Call("canonical_text", <<a, b>>) : a \in TextLists, b \in TextLists}

\* CanonicalHeader::serialize on two headers that agree outside the recipients
CanonicalTextCall ==
  /\ fx.fn = "canonical_text"
  /\ fx.out = None
  /\ fx' = [fx EXCEPT !.out = Some(<<CanonicalSerializeText(TextHeader(fx.arg[1])),
                                     CanonicalSerializeText(TextHeader(fx.arg[2]))>>)]
  /\ UNCHANGED <<par, hybrid, trustStore, disk, req, seal_, sealTemp, input, ctx, un, unTemp>>

FnCalls ==
  CanonicalCalls \cup PaeCalls \cup WrapCalls \cup HeaderLenCalls \cup CanonicalTextCalls

FnInit == Quiet /\ par = NoPar /\ fx \in FnCalls

FnNext ==
  \/ CanonicalCall
  \/ PaeCall
  \/ WrapCall
  \/ HeaderLenCall
  \/ CanonicalTextCall

FnSpec == FnInit /\ [][FnNext]_vars

\* --------------------------------------------- operations running side by side
\* Several seal and unseal calls at once, each with its own NamedTempFile. What
\* an operation writes is reduced to numbered blocks: <<o, n>> is the n-th block
\* of operation o's output (header and frames for seal, plaintext for unseal).
MaxOps == 2
MaxBlocks == 2

Paths == {"a", "b"}
ParPrior == <<"prior">>

\* the complete output of operation o
Output(o) == [n \in 1..MaxBlocks |-> <<o, n>>]

ParOp(kind, path) ==
  [kind |-> kind, path |-> path, pc |-> "start", temp |-> None, loaded |-> None]

\* A publication that adds the temp file's bytes to what the path holds,
\* standing in place of Persist.
Persist_Append(files, path, temp) == [files EXCEPT ![path] = @ \o temp]

\* temp_file.persist(output_path): the rename puts the temp file, whole, in the
\* place of whatever the path held.
Persist(files, path, temp) == [files EXCEPT ![path] = temp]

ConcInit ==
  /\ Quiet
  /\ fx = NoCall
  /\ par \in [ops : [1..MaxOps -> {ParOp(k, p) : k \in {"seal", "unseal"}, p \in Paths}],
               files : {[p \in Paths |-> ParPrior]}]

\* lib.rs 47-148 and 183-284: everything before the temp file. unseal loads the
\* trust store from its file (lib.rs 222); seal does not read it.
ParBegin(o) ==
  /\ par.ops[o].pc = "start"
  /\ par' = [par EXCEPT !.ops[o].pc = "ready",
                        !.ops[o].loaded = IF par.ops[o].kind = "unseal"
                                          THEN Some(trustStore) ELSE None]
  /\ UNCHANGED <<fx, hybrid, trustStore, disk, req, seal_, sealTemp, input, ctx, un, unTemp>>

\* lib.rs 152 and 288: NamedTempFile::new_in gives every call a file of its own.
ParCreateTemp(o) ==
  /\ par.ops[o].pc = "ready"
  /\ par' = [par EXCEPT !.ops[o].pc = "writing", !.ops[o].temp = Some(<<>>)]
  /\ UNCHANGED <<fx, hybrid, trustStore, disk, req, seal_, sealTemp, input, ctx, un, unTemp>>

\* lib.rs 160-171 and 291-298: header and frames, or plaintext, into the temp
\* file.
ParWrite(o) ==
  /\ par.ops[o].pc = "writing"
  /\ Len(par.ops[o].temp[1]) < MaxBlocks
  /\ par' = [par EXCEPT !.ops[o].temp =
                          Some(Append(@[1], <<o, Len(par.ops[o].temp[1]) + 1>>))]
  /\ UNCHANGED <<fx, hybrid, trustStore, disk, req, seal_, sealTemp, input, ctx, un, unTemp>>

\* lib.rs 175 and 301: sync_all once the stream has been written.
ParSync(o) ==
  /\ par.ops[o].pc = "writing"
  /\ Len(par.ops[o].temp[1]) = MaxBlocks
  /\ par' = [par EXCEPT !.ops[o].pc = "synced"]
  /\ UNCHANGED <<fx, hybrid, trustStore, disk, req, seal_, sealTemp, input, ctx, un, unTemp>>

\* lib.rs 178 and 304: temp_file.persist(output_path)
ParPersist(o) ==
  /\ par.ops[o].pc = "synced"
  /\ par' = [par EXCEPT !.files = Persist(@, par.ops[o].path, par.ops[o].temp[1]),
                        !.ops[o].temp = None,
                        !.ops[o].pc = "done"]
  /\ UNCHANGED <<fx, hybrid, trustStore, disk, req, seal_, sealTemp, input, ctx, un, unTemp>>

\* An error (`?`) or a dropped future: the NamedTempFile is dropped and unlinked.
ParAbort(o) ==
  /\ par.ops[o].pc \in {"ready", "writing", "synced"}
  /\ par' = [par EXCEPT !.ops[o].pc = "failed", !.ops[o].temp = None]
  /\ UNCHANGED <<fx, hybrid, trustStore, disk, req, seal_, sealTemp, input, ctx, un, unTemp>>

ConcNext ==
  \/ \E o \in 1..MaxOps : ParBegin(o)
  \/ \E o \in 1..MaxOps : ParCreateTemp(o)
  \/ \E o \in 1..MaxOps : ParWrite(o)
  \/ \E o \in 1..MaxOps : ParSync(o)
  \/ \E o \in 1..MaxOps : ParPersist(o)
  \/ \E o \in 1..MaxOps : ParAbort(o)

ConcSpec == ConcInit /\ [][ConcNext]_vars

\* ------------------------------------------------------------- properties
Terminated == un.pc \in {"done", "failed"}

\* unseal was handed exactly the file seal published
Untampered == input = disk.sealed

RecipientSet == {req.recipients[i] : i \in 1..Len(req.recipients)}

\* the context holds the keys of one recipient the file was sealed to
KeysOfListedRecipient ==
  /\ ctx.mlkem_sk \in RecipientSet
  /\ hybrid => ctx.x25519_sk = Some(ctx.mlkem_sk)

\* the signature and trust checks are satisfiable by the published file
ChecksSatisfied ==
  IF req.signer = None THEN ctx.allow_unsigned
  ELSE ctx.trust_any_signer \/ is_trusted(trustStore, id_hex(req.signer[1]))

\* C1 (as stated): whenever seal accepted the request (any chunk_size it
\* accepts, any non-empty recipient list) and unseal is given the published
\* file with the keys of a listed recipient and the signature/trust checks
\* satisfied, unseal, unless an I/O failure stops it, succeeds and the file it
\* publishes holds exactly the input bytes.
C1_RoundTrip ==
  (/\ Terminated
   /\ un.err # "IoFailure"
   /\ Untampered
   /\ KeysOfListedRecipient
   /\ ChecksSatisfied)
  => /\ un.pc = "done"
     /\ disk.plain = PlainFile(req.input)

\* The fields of the header and the ciphertext bits C2 speaks of.
TamperedHeaderField ==
  /\ input.hdr # None
  /\ LET h == input.hdr[1]
         g == disk.sealed.hdr[1]
     IN \/ h.suite # g.suite
        \/ h.chunk_size # g.chunk_size
        \/ h.file_id # g.file_id
        \/ h.kdf_salt # g.kdf_salt

TamperedCiphertext ==
  /\ Len(input.frames) = Len(disk.sealed.frames)
  /\ \E i \in 1..Len(input.frames) :
       /\ input.frames[i].ct.flip
       /\ ~disk.sealed.frames[i].ct.flip

\* C2 (as stated): if suite, chunk_size, file_id or kdf_salt of the header, or a
\* bit of any chunk ciphertext, was changed after sealing, unseal does not
\* succeed, whatever the input's length (the empty input included) and whether
\* or not the header is signed.
C2_TamperDetected ==
  (un.pc # "idle" /\ (TamperedHeaderField \/ TamperedCiphertext))
  => un.pc # "done"

\* Work that the verification block must precede: decapsulation, unwrap, chunk
\* decryption, the temp file, the published plaintext.
OpsBegun ==
  \/ un.decaps > 0
  \/ un.unwraps > 0
  \/ un.aead_ops > 0
  \/ un.cek # None
  \/ unTemp # None
  \/ disk.plain # PriorFile

HeaderRead == un.hdr # None
HeaderSigned == HeaderRead /\ un.hdr[1].mldsa_sig # None
HeaderUnsigned == HeaderRead /\ un.hdr[1].mldsa_sig = None
HasMetadata == HeaderRead /\ un.hdr[1].signature_metadata # None

\* The header's signature is a signature, by the key in the metadata, of the
\* canonical text of the header as read.
SigVerifies ==
  /\ HeaderSigned
  /\ HasMetadata
  /\ LET h == un.hdr[1]
         sg == h.mldsa_sig[1]
     IN /\ h.signature_metadata[1].public_key = <<"b64", sg.by>>
        /\ sg.msg = CanonicalSerialize(h)
        /\ ~sg.flip

SignerId == un.hdr[1].signature_metadata[1].signer_id

VerificationPassed ==
  IF HeaderSigned
  THEN SigVerifies /\ (ctx.trust_any_signer \/ SignerId \in trustStore)
  ELSE HeaderUnsigned /\ ctx.allow_unsigned

\* C3: a header whose signature does not verify makes unseal fail with the
\* signature error before any decapsulation, unwrap or chunk decryption; and
\* none of that work, nor any output, exists unless the verification block let
\* the header pass.
C3_VerifyBeforeDecrypt ==
  /\ (HeaderSigned /\ HasMetadata /\ ~SigVerifies /\ un.pc # "verify")
     => (un.pc = "failed" /\ un.err = "SignatureInvalid" /\ ~OpsBegun)
  /\ OpsBegun => VerificationPassed

C3_Witness ==
  /\ HeaderSigned /\ HasMetadata /\ ~SigVerifies
  /\ Len(un.hdr[1].recipients) > 0
  /\ un.pc = "failed" /\ un.err = "SignatureInvalid"
  /\ ~OpsBegun

\* C4: an unsigned header with allow_unsigned false makes unseal fail with the
\* unsigned error and no plaintext; with allow_unsigned true the header is let
\* through to recipient processing.
C4_UnsignedGate ==
  (HeaderUnsigned /\ un.pc # "verify")
  => IF ctx.allow_unsigned
     THEN un.gate /\ un.err # "Unsigned"
     ELSE un.pc = "failed" /\ un.err = "Unsigned" /\ ~OpsBegun

C4_Witness ==
  /\ HeaderUnsigned /\ ~ctx.allow_unsigned
  /\ Len(un.hdr[1].recipients) > 0
  /\ un.pc = "failed" /\ un.err = "Unsigned"
  /\ disk.plain = PriorFile

\* C5: a signature without signature metadata is fatal, whatever
\* allow_unsigned and trust_any_signer are.
C5_MetadataMissingFatal ==
  (HeaderSigned /\ ~HasMetadata /\ un.pc # "verify")
  => (un.pc = "failed" /\ un.err = "SignatureMetadataMissing" /\ ~OpsBegun)

C5_Witness ==
  /\ HeaderSigned /\ ~HasMetadata
  /\ Len(un.hdr[1].recipients) > 0
  /\ ctx.allow_unsigned /\ ctx.trust_any_signer
  /\ un.pc = "failed" /\ un.err = "SignatureMetadataMissing"

\* C6: a valid signature whose signer id is not in the trust store is fatal
\* when trust_any_signer is false; when it is true the store is not consulted
\* and unseal goes on.
C6_UntrustedSignerFatal ==
  (SigVerifies /\ un.pc # "verify")
  => IF ctx.trust_any_signer
     THEN ~un.trust_checked /\ un.gate /\ un.err # "SignerUntrusted"
     ELSE /\ un.trust_checked
          /\ IF SignerId \in trustStore
             THEN un.gate
             ELSE un.pc = "failed" /\ un.err = "SignerUntrusted" /\ ~OpsBegun

C6_Witness ==
  /\ SigVerifies /\ ~ctx.trust_any_signer /\ SignerId \notin trustStore
  /\ Len(un.hdr[1].recipients) > 0
  /\ un.pc = "failed" /\ un.err = "SignerUntrusted"

\* The X25519 shared secret of the context: empty without a secret key.
CtxSharedSecret(h) ==
  IF hybrid /\ ctx.x25519_sk # None
  THEN diffie_hellman(ctx.x25519_sk[1], h.eph_x25519_pk)
  ELSE {}

\* Entry i of the header unwraps under the KEK derived from the context's keys.
EntryUnwraps(h, i) ==
  LET r == h.recipients[i]
  IN /\ CiphertextFromBytesOk(r.mlkem_ct)
     /\ r.wrapped_dek.len = WRAPPED_DEK_LEN
     /\ unwrap_dek(derive_kek(decapsulate(r.mlkem_ct, ctx.mlkem_sk),
                              CtxSharedSecret(h), h.kdf_salt),
                   r.wrap_nonce, r.wrapped_dek) # None

NoEntryUnwraps == \A i \in 1..Len(un.hdr[1].recipients) : ~EntryUnwraps(un.hdr[1], i)

\* the recipient loop has been entered and left
LoopLeft == un.gate /\ un.pc \notin {"verify", "recipients", "adopt"}

\* C7 (as stated): entries are tried in file order; an entry that fails to
\* unwrap never aborts unseal, the next entry is tried; the first entry that
\* unwraps supplies the CEK and no later entry is tried; and unseal fails with
\* the no-matching-recipient error if and only if no entry unwraps.
C7_RecipientTrialLoop ==
  /\ \A j, k \in 1..Len(un.tried) : j < k => un.tried[j][1] < un.tried[k][1]
  /\ \A j \in 1..Len(un.tried) :
       IF un.tried[j][2]
       THEN /\ j = Len(un.tried)
            /\ un.cek # None
            /\ EntryUnwraps(un.hdr[1], un.tried[j][1])
            /\ \A i \in 1..(un.tried[j][1] - 1) : ~EntryUnwraps(un.hdr[1], i)
       ELSE un.rec > un.tried[j][1]
  /\ un.err = "NoMatchingRecipient" => LoopLeft
  /\ LoopLeft => (un.err = "NoMatchingRecipient" <=> NoEntryUnwraps)

RECURSIVE FramesPlain(_)
\* the plaintexts under a sequence of frames, concatenated
FramesPlain(frames) ==
  IF frames = <<>> THEN <<>>
  ELSE frames[1].ct.pt \o FramesPlain(SubSeq(frames, 2, Len(frames)))

FrameWhole(f) == f.avail = FRAME_HDR_LEN + f.len

\* A container as seal leaves it when its stream loop has run to the end: the
\* header, then one whole frame per chunk read, numbered from 0, holding every
\* byte that was read.
WholeContainer(f) ==
  /\ f.kind = "container"
  /\ f.hdr = seal_.hdr
  /\ f.hdr_len = HeaderBytesLen(f.hdr[1])
  /\ \A i \in 1..Len(f.frames) :
       FrameWhole(f.frames[i]) /\ f.frames[i].chunk_no = Wide(i - 1)
  /\ FramesPlain(f.frames) = SubSeq(req.input, 1, seal_.pos)

\* A plaintext as unseal leaves it when its stream loop has run to the end of
\* the frames: the plaintext of every frame up to the end of the input.
WholeOutput(f) ==
  /\ f.kind = "plain"
  /\ un.pos > Len(input.frames) \/ input.frames[un.pos].avail < FRAME_HDR_LEN
  /\ Len(un.accepted) = un.pos - 1
  /\ f.data = FramesPlain(SubSeq(input.frames, 1, un.pos - 1))

\* C8: at every moment the file at each output path is what it was before or
\* the complete, synced output of a finished stream; a failed or cancelled
\* operation leaves the path untouched and its temp file removed.
C8_AtomicPublication ==
  /\ disk.sealed # PriorFile
     => (seal_.pc = "done" /\ seal_.synced /\ sealTemp = None /\ WholeContainer(disk.sealed))
  /\ disk.plain # PriorFile
     => (un.pc = "done" /\ un.synced /\ unTemp = None /\ WholeOutput(disk.plain))
  /\ seal_.pc = "failed" => (disk.sealed = PriorFile /\ sealTemp = None)
  /\ un.pc = "failed" => (disk.plain = PriorFile /\ unTemp = None)

C8_Witness ==
  /\ un.pc = "failed"
  /\ Len(un.accepted) >= 1
  /\ disk.plain = PriorFile
  /\ unTemp = None

\* C9: the frames unseal accepts are numbered 0, 1, 2, ... in the order read;
\* a frame with any other number fails the stream with the out-of-order error
\* before it is decrypted, nothing is written or decrypted after it, and unseal
\* never gets past such a frame.
C9_ChunkOrdering ==
  /\ \A i \in 1..Len(un.accepted) :
       un.accepted[i] = Wide(i - 1) /\ input.frames[i].chunk_no = Wide(i - 1)
  /\ un.expected_chunk = Wide(Len(un.accepted))
  /\ un.err = "ChunkOutOfOrder"
     => /\ un.pc = "failed"
        /\ input.frames[un.pos].chunk_no # Wide(un.pos - 1)
        /\ un.aead_ops = Len(un.accepted)
        /\ Len(un.accepted) = un.pos - 1
        /\ unTemp = None
        /\ disk.plain = PriorFile
  /\ un.pc \in {"synced", "done"}
     => \A i \in 1..Len(input.frames) :
          input.frames[i].avail >= FRAME_HDR_LEN
          => input.frames[i].chunk_no = Wide(i - 1)

C9_Witness ==
  /\ un.pc = "failed"
  /\ un.err = "ChunkOutOfOrder"
  /\ Len(un.accepted) >= 1

\* the frame stream of the input ends where a frame ends
EndsOnFrameBoundary == \A i \in 1..Len(input.frames) : FrameWhole(input.frames[i])

\* C10 (as stated): unseal succeeds only on a stream that ends on a frame
\* boundary; end of file inside the 8-byte frame header or inside the frame
\* body is an error.
C10_EofHandling ==
  un.pc = "done" => EndsOnFrameBoundary

\* C11 (as stated): whenever the frame sequence given to unseal differs from the
\* sequence seal wrote (a frame altered, duplicated, reordered, inserted, or
\* trailing frames removed), unseal does not succeed.
C11_FrameStreamTamperDetected ==
  (un.pc # "idle" /\ input.frames # disk.sealed.frames) => un.pc # "done"

\* C12 (as stated): for every header and every permutation of its recipients
\* list, entries that share an ML-KEM ciphertext included, serialize returns
\* the same bytes for the header and for the permuted header.
C12_CanonicalPermutationInvariant ==
  (fx.fn = "canonical" /\ fx.out # None) => fx.out[1][1] = fx.out[1][2]

\* u64_be and u32_be of a number below 2^16 and below 2^31
U64Be(n) == <<0, 0, 0, 0, 0, 0, n \div 256, n % 256>>
U32Be(n) == <<n \div 16777216, (n \div 65536) % 256, (n \div 256) % 256, n % 256>>

\* The AAD layout: "QSFS-PAE", the layout byte, then each item as u64_be(length)
\* and its bytes.
PaeLayout(h) ==
  LET suite == AsBytes(as_str(h.suite))
  IN AsBytes("QSFS-PAE") \o <<IF h.kdf_salt = None THEN 1 ELSE 2>>
     \o U64Be(7) \o AsBytes("qsfs/v2")
     \o U64Be(Len(suite)) \o suite
     \o U64Be(4) \o U32Be(h.chunk_size)
     \o U64Be(8) \o h.file_id
     \o (IF h.kdf_salt = None THEN <<>> ELSE U64Be(32) \o h.kdf_salt[1])

PaeFields(h) == <<h.suite, h.chunk_size, h.file_id, h.kdf_salt>>

\* C13: pae_v2_compat returns the bytes of the layout (prefix, byte 0x01 and
\* four items without salt, byte 0x02 and five items with it, every item
\* behind its u64_be length), and two headers that differ in suite,
\* chunk_size, file_id, kdf_salt or salt presence never get the same AAD.
C13_PaeLayout ==
  (fx.fn = "pae" /\ fx.out # None)
  => /\ fx.out[1][1] = PaeLayout(fx.arg[1])
     /\ fx.out[1][2] = PaeLayout(fx.arg[2])
     /\ PaeFields(fx.arg[1]) # PaeFields(fx.arg[2]) => fx.out[1][1] # fx.out[1][2]

\* the known answer of kat_v2.rs, next to a header that differs from it in the
\* presence of the salt only
C13_Witness ==
  /\ fx.fn = "pae" /\ fx.out # None
  /\ PaeFields(fx.arg[1]) = <<"Aes256GcmSiv", 131072, KatFileId, None>>
  /\ fx.out[1][1] =
       <<81, 83, 70, 83, 45, 80, 65, 69, 1,
         0, 0, 0, 0, 0, 0, 0, 7, 113, 115, 102, 115, 47, 118, 50,
         0, 0, 0, 0, 0, 0, 0, 14,
         97, 101, 115, 50, 53, 54, 45, 103, 99, 109, 45, 115, 105, 118,
         0, 0, 0, 0, 0, 0, 0, 4, 0, 2, 0, 0,
         0, 0, 0, 0, 0, 0, 0, 8, 142, 175, 1, 93, 155, 44, 21, 40>>
  /\ fx.arg[2] = [fx.arg[1] EXCEPT !.kdf_salt = Some([i \in 1..32 |-> 7])]
  /\ fx.out[1][2] # fx.out[1][1]

WrapDone == fx.fn = "wrap" /\ fx.out # None

\* C14: wrap_dek returns 48 bytes; unwrap_dek with the same KEK and nonce gives
\* the DEK back; unwrap_dek is an error when the wrapped length is not 48, when
\* the 48 bytes were altered, and when the KEK or the nonce is another one.
C14_WrapUnwrap ==
  WrapDone
  => LET a == fx.arg
         same == a.kek2 = a.kek /\ a.nonce2 = a.nonce /\ a.how = "none"
     IN /\ fx.out[1].wrapped.len = 48
        /\ same => fx.out[1].unwrapped = Some(a.dek)
        /\ ~same => fx.out[1].unwrapped = None

\* a wrapped DEK of 48 bytes is refused by the right KEK under the other nonce
C14_Witness ==
  /\ WrapDone
  /\ fx.out[1].wrapped.len = 48
  /\ fx.arg.how = "none" /\ fx.arg.kek2 = fx.arg.kek /\ fx.arg.nonce2 # fx.arg.nonce
  /\ fx.out[1].unwrapped = None

\* C15: a seal asked for a chunk_size above 4 MiB fails and publishes nothing,
\* and unseal rejects every container whose header declares a chunk_size above
\* 4 MiB.
C15_ChunkSizeBound ==
  /\ (seal_.pc \in {"done", "failed"} /\ req.chunk_size > 4 * 1024 * 1024)
     => (seal_.pc = "failed" /\ disk.sealed = PriorFile)
  /\ (HeaderRead /\ un.hdr[1].chunk_size > 4 * 1024 * 1024) => un.pc # "done"

\* the headers at the two places that build the signing text: seal before it
\* creates its temporary file, unseal at its verification block
HeadersInPlay ==
  (IF seal_.pc = "prepared" THEN {seal_.hdr[1]} ELSE {})
  \cup (IF un.pc = "verify" THEN {un.hdr[1]} ELSE {})

SignatureFieldValues ==
  LET sg == Some(sign("s2", <<>>))
      ed == Some(sign("s1", <<>>))
      md == Some(CanonicalSignatureMetadataNew(id_hex("s2"), "s2"))
  IN {[mldsa_sig |-> None, ed25519_sig |-> None, signature_metadata |-> None],
      [mldsa_sig |-> sg, ed25519_sig |-> None, signature_metadata |-> None],
      [mldsa_sig |-> None, ed25519_sig |-> ed, signature_metadata |-> None],
      [mldsa_sig |-> None, ed25519_sig |-> None, signature_metadata |-> md],
      [mldsa_sig |-> sg, ed25519_sig |-> ed, signature_metadata |-> md]}

\* C16: the signing text does not depend on mldsa_sig, ed25519_sig or
\* signature_metadata, so the text unseal rebuilds from the header it read is
\* the text seal signed, and every container sealed with a signer passes the
\* signature verification of unseal.
C16_SignVerifyAgreement ==
  /\ \A h \in HeadersInPlay :
       LET text == CanonicalSerialize(h)
       IN /\ \A v \in SignatureFieldValues :
               CanonicalSerialize([h EXCEPT !.mldsa_sig = v.mldsa_sig,
                                            !.ed25519_sig = v.ed25519_sig,
                                            !.signature_metadata = v.signature_metadata])
                 = text
          /\ (req.signer # None /\ (h = seal_.hdr[1] \/ Untampered))
             => h.mldsa_sig[1].msg = text
  /\ (req.signer # None /\ Untampered /\ HeaderRead /\ un.pc # "verify")
     => (un.verified /\ un.err # "SignatureInvalid")

\* a container sealed with a signer, handed over as published, was verified
\* and unsealed
C16_Witness ==
  /\ req.signer # None
  /\ Untampered
  /\ un.verified
  /\ un.pc = "done"
  /\ un.hdr[1].mldsa_sig[1].msg = CanonicalSerialize(un.hdr[1])

\* the public key the metadata embeds, which is the key verify_signature used
EmbeddedKey == Base64Decode(un.hdr[1].signature_metadata[1].public_key)[1]

\* C17: with trust_any_signer false, a signed header gets through the
\* verification block only if the signer_id looked up in the trust store is
\* SHA-256 of the embedded public key that verified the signature; a header
\* signed by a key outside the trust store never passes by naming a trusted id.
C17_SignerIdentityBinding ==
  (HeaderSigned /\ ~ctx.trust_any_signer /\ un.gate)
  => (SignerId = id_hex(EmbeddedKey) /\ id_hex(EmbeddedKey) \in trustStore)

\* the header unseal read carries the signature and metadata seal attached,
\* and differs from the sealed header in a field the PAE is built from
SignatureKept ==
  /\ req.signer # None
  /\ disk.sealed # PriorFile
  /\ HeaderSigned
  /\ un.hdr[1].mldsa_sig = disk.sealed.hdr[1].mldsa_sig
  /\ un.hdr[1].signature_metadata = disk.sealed.hdr[1].signature_metadata

PaeFieldChanged == PaeFields(un.hdr[1]) # PaeFields(disk.sealed.hdr[1])

\* C18: a signed header in which suite, chunk_size, file_id or kdf_salt was
\* changed while the signature was kept does not pass the signature
\* verification of unseal.
C18_SignatureBindsPaeFields ==
  (SignatureKept /\ PaeFieldChanged) => ~un.verified

\* entry i of the header was handed to unwrap_dek
EntryTried(i) == \E j \in 1..Len(un.tried) : un.tried[j][1] = i

\* C19: when the caller supplies no X25519 secret key, unseal does not abort
\* for that reason: it derives each KEK with an empty X25519 shared secret and
\* attempts the unwrap for every recipient entry, so a loop that ends without a
\* CEK has tried them all.
C19_MissingX25519Secret ==
  (un.pc # "idle" /\ ctx.x25519_sk = None)
  => /\ un.err # "X25519Required"
     /\ \A j \in 1..Len(un.tried) :
          un.tried[j][2] <=> EntryUnwraps(un.hdr[1], un.tried[j][1])
     /\ (LoopLeft /\ un.cek = None /\ un.err = "NoMatchingRecipient")
        => \A i \in 1..Len(un.hdr[1].recipients) :
             (CiphertextFromBytesOk(un.hdr[1].recipients[i].mlkem_ct)
              /\ un.hdr[1].recipients[i].wrapped_dek.len = WRAPPED_DEK_LEN)
             => EntryTried(i)

\* C20: decrypt_stream rejects, before it reads or decrypts the body, every
\* frame whose declared length exceeds the header's chunk_size plus 16: the
\* frames whose body went to the AEAD all respect that bound.
C20_FrameLengthBound ==
  \A i \in 1..un.aead_ops : input.frames[i].len <= un.hdr[1].chunk_size + 16

\* Entry i of the header carries no wrapped_dek but a legacy wrap of 48 bytes
\* that unwraps under the KEK derived from the context's keys.
LegacyWrapUnwraps(h, i) ==
  LET r == h.recipients[i]
  IN /\ r.wrapped_dek.len = 0
     /\ CiphertextFromBytesOk(r.mlkem_ct)
     /\ r.wrap.len = 48
     /\ unwrap_dek(derive_kek(decapsulate(r.mlkem_ct, ctx.mlkem_sk),
                              CtxSharedSecret(h), h.kdf_salt),
                   r.wrap_nonce, r.wrap) # None

\* C21: seal writes the same 48 bytes to wrap and wrapped_dek of every entry,
\* and unseal takes the wrapped DEK from either field: from wrapped_dek when it
\* is there, from wrap when wrapped_dek is empty, so an entry whose legacy wrap
\* unwraps never leaves the loop without a CEK.
C21_LegacyMirror ==
  /\ seal_.hdr # None
     => \A i \in 1..Len(seal_.hdr[1].recipients) :
          /\ seal_.hdr[1].recipients[i].wrap = seal_.hdr[1].recipients[i].wrapped_dek
          /\ seal_.hdr[1].recipients[i].wrap.len = 48
  /\ (LoopLeft /\ \E i \in 1..Len(un.hdr[1].recipients) : LegacyWrapUnwraps(un.hdr[1], i))
     => un.err # "NoMatchingRecipient"

\* the frames written so far by the running or finished seal
SealFrames ==
  IF sealTemp # None /\ sealTemp[1].kind = "container" THEN sealTemp[1].frames
  ELSE IF seal_.pc = "done" THEN disk.sealed.frames ELSE <<>>

\* file ids and chunk numbers next to the ones of the stream
NonceFileIds == {derive_file_nonce_seed(CEK), derive_file_nonce_seed("cek2")}
NonceChunkNos ==
  {Wide(0), Wide(1), Wide(255), Wide(256), [hi |-> 1, lo |-> 0], [hi |-> 256, lo |-> 0],
   [hi |-> LIMB - 1, lo |-> LIMB - 1]}

\* C22: the frames of one encrypt_stream run are numbered 0, 1, 2, ... in input
\* order, chunk i is encrypted under nonce_96(file_id, i), no two frames of the
\* stream share a nonce, and nonce_96 gives different nonces for different
\* chunk numbers and for different file ids.
C22_NonceUniqueness ==
  /\ \A i \in 1..Len(SealFrames) :
       /\ SealFrames[i].chunk_no = Wide(i - 1)
       /\ SealFrames[i].ct.nonce = nonce_96(seal_.hdr[1].file_id, Wide(i - 1))
       /\ SealFrames[i].ct.key = hkdf_expand_keys(seal_.cek[1], CONFIRM).aes_k1
       /\ \A j \in 1..Len(SealFrames) :
            i # j => SealFrames[i].ct.nonce # SealFrames[j].ct.nonce
  /\ seal_.pc = "loop"
     => \A f \in NonceFileIds, c \in NonceChunkNos :
          <<f, c>> # <<seal_.hdr[1].file_id, seal_.chunk_no>>
          => nonce_96(f, c) # nonce_96(seal_.hdr[1].file_id, seal_.chunk_no)

\* a stream of two frames was written, under two nonces
C22_Witness ==
  /\ seal_.pc = "done"
  /\ Len(disk.sealed.frames) = 2
  /\ disk.sealed.frames[1].ct.nonce = nonce_96(seal_.hdr[1].file_id, Wide(0))
  /\ disk.sealed.frames[2].ct.nonce = nonce_96(seal_.hdr[1].file_id, Wide(1))
  /\ disk.sealed.frames[1].ct.nonce # disk.sealed.frames[2].ct.nonce

CounterErrors == {"TooManyChunks", "ChunkOverflow"}

\* C23: the chunk counter never wraps: encrypt_stream and decrypt_stream
\* complete on a stream of up to and including 2^32 chunks, numbered
\* 0 .. 2^32 - 1, and fail only when a further chunk is presented, that is
\* when the counter stands at 2^32; no chunk number is used twice.
C23_ChunkCounterBound ==
  /\ seal_.err \in CounterErrors => WideGe(seal_.chunk_no, MAX_CHUNKS)
  /\ un.err \in CounterErrors => WideGe(un.total_chunks, MAX_CHUNKS)
  /\ \A i, j \in 1..Len(SealFrames) :
       i < j => SealFrames[i].chunk_no # SealFrames[j].chunk_no

\* nothing past the header checks has happened
NothingPastHeader ==
  /\ ~un.gate /\ ~un.verified /\ ~un.trust_checked
  /\ ~OpsBegun

\* C24: unseal rejects a declared header length above 1 MiB before it reads
\* the header bytes, and a parsed header whose magic is not "QSFS2\0" before any
\* signature verification, trust lookup, decapsulation or output file.
C24_EarlyHeaderRejection ==
  un.pc # "idle"
  => /\ input.hdr_len > 1024 * 1024
        => (un.pc = "failed" /\ un.err = "HeaderTooLarge" /\ un.hdr = None
            /\ NothingPastHeader)
     /\ (input.hdr_len <= 1024 * 1024 /\ input.hdr # None /\ input.hdr[1].magic # "QSFS2")
        => (un.pc = "failed" /\ un.err = "BadMagic"
            /\ NothingPastHeader)

\* a signed container with another magic was turned away at the magic check
C24_Witness ==
  /\ un.err = "BadMagic"
  /\ input.hdr[1].magic # "QSFS2"
  /\ input.hdr[1].mldsa_sig # None
  /\ NothingPastHeader

\* an entry of the header read whose ML-KEM ciphertext is not 1568 bytes or
\* whose wrapped DEK is not 48 bytes
MalformedEntry ==
  \E i \in 1..Len(un.hdr[1].recipients) :
    \/ un.hdr[1].recipients[i].mlkem_ct.len # 1568
    \/ un.hdr[1].recipients[i].wrapped_dek.len # 48

\* C25: a header with a recipient entry whose ML-KEM ciphertext is not 1568
\* bytes or whose wrapped DEK is not 48 bytes makes unseal fail with the
\* invalid-recipient error; such an entry is not passed over in silence.
C25_RecipientEntryInvariants ==
  (LoopLeft /\ MalformedEntry) => (un.pc = "failed" /\ un.err = "InvalidRecipient")

\* C26: the AEAD applied to the chunks is the one the header's suite names:
\* seal encrypts every frame with it, and whenever unseal hands a frame to the
\* AEAD, the algorithm it applies is the one named by the suite it read.
C26_SuiteSelectedAead ==
  /\ \A i \in 1..Len(SealFrames) : SealFrames[i].ct.alg = seal_.hdr[1].suite
  /\ un.aead_ops > 0 => Aes = un.hdr[1].suite

\* The buffers that held key material or plaintext and were released with
\* their content: those the loops left behind, and the CEK array of unseal,
\* which lives until unseal returns.
ReleasedUnzeroed ==
  seal_.unzeroed \cup un.unzeroed
  \cup (IF Terminated /\ un.cek # None THEN {"cek"} ELSE {})

\* C27: on every exit path of seal, unseal, encrypt_stream and decrypt_stream
\* every buffer that held the CEK, a KEK, a stream key or plaintext chunk data
\* is all-zero when it is released.
C27_ZeroizeBeforeRelease == ReleasedUnzeroed = {}

ParOps == DOMAIN par.ops
ParDone(o) == par.ops[o].pc = "done"
ParEnded(o) == par.ops[o].pc \in {"done", "failed"}

\* C28: operations running side by side do not interfere: whatever the
\* interleaving, and also when they share an output path, every path holds at
\* every moment what it held before or the complete output of one finished
\* operation that targeted it, never a mixture or a part; once all have ended,
\* a path some operation finished on holds such an output; no temp file is left
\* behind; and the trust store is what every unseal loaded.
C28_ConcurrentOps ==
  /\ \A p \in DOMAIN par.files :
       \/ par.files[p] = ParPrior
       \/ \E o \in ParOps :
            par.ops[o].path = p /\ ParDone(o) /\ par.files[p] = Output(o)
  /\ (\A o \in ParOps : ParEnded(o))
     => \A o \in ParOps : ParDone(o) => par.files[par.ops[o].path] # ParPrior
  /\ \A o \in ParOps : ParEnded(o) => par.ops[o].temp = None
  /\ \A o \in ParOps :
       par.ops[o].loaded # None => par.ops[o].loaded[1] = trustStore

\* two operations on one path: the first has published while the second,
\* an unseal that loaded the trust store, held its finished temp file
C28_Witness ==
  /\ par.ops # <<>>
  /\ par.ops[1].path = par.ops[2].path
  /\ par.ops[1].pc = "done"
  /\ par.ops[2].kind = "unseal" /\ par.ops[2].loaded = Some(trustStore)
  /\ par.ops[2].pc = "synced" /\ par.ops[2].temp = Some(Output(2))
  /\ par.files[par.ops[1].path] = Output(1)

\* C29: seal never publishes an unreadable container: for every recipient list
\* and signer, the serialized header seal writes is at most 1 MiB, so unseal's
\* header-length check does not reject it.
C29_SealHeaderFits ==
  (fx.fn = "header_len" /\ fx.out # None)
  => /\ fx.out[1].hdr_len <= MAX_HEADER_LEN
     /\ fx.out[1].err # "HeaderTooLarge"

\* the two recipient lists differ in their length or, whatever the order, in
\* some field of some entry
RecipientsDiffer(a, b) ==
  \/ Len(a) # Len(b)
  \/ \A p \in Permutations(1..Len(a)) : Permute(b, p) # a

\* C30: the canonical form is unambiguous: two headers that differ in a signed
\* recipient field (label, ML-KEM ciphertext, wrap, wrapped_dek, wrap nonce,
\* X25519 key, fingerprint) or in the number of recipients never have the same
\* canonical signing bytes, whatever the labels: spaces, '=' and line breaks
\* included.
C30_CanonicalUnambiguous ==
  (fx.fn = "canonical_text" /\ fx.out # None /\ RecipientsDiffer(fx.arg[1], fx.arg[2]))
  => fx.out[1][1] # fx.out[1][2]

====
